---- MODULE Spec2Model ----
(***************************************************************************)
(* Model of ginga/canvas/types/image.py: the image canvas objects ImageP   *)
(* (raw RGB) and NormImageP (cut-levelled and colour-mapped), their        *)
(* per-viewer render cache and the whence-driven drawing pipeline.         *)
(*                                                                         *)
(* Arrays are modelled by their provenance: a cutout is the record of the  *)
(* scaled-cutout request that produced it, an index array (prergb) records *)
(* the cutout and the cut levels it was computed from, an RGB array        *)
(* records the index array and the colour map it was computed from.  Two   *)
(* arrays are equal exactly when they were computed from equal inputs.     *)
(* Lengths that the source keeps as floats with a fractional part (the     *)
(* corners of the draw rectangle, the pan offset) are counted in halves.   *)
(***************************************************************************)
EXTENDS Integers, Sequences, FiniteSets, TLC

VARIABLES
    kind,           \* self.kind as the constructors leave it
    image,          \* self.image: an image or None
    x, y,           \* self.x, self.y: anchor in data space
    scale_x,        \* self.scale_x
    scale_y,        \* self.scale_y
    interpolation,  \* self.interpolation: None or [method |-> name]
    flipy,          \* self.flipy
    optimize,       \* self.optimize
    rgbmap,         \* self.rgbmap (NormImageP): None or a colour mapper
    cuts,           \* self.cuts (NormImageP): None or [lo, hi]
    autocuts,       \* self.autocuts (NormImageP): None or a cuts policy
    alpha,          \* self.alpha, in halves
    zorder,         \* self._zorder
    made,           \* the constructor call that made the object
    redrawing,      \* the viewers of the draw calls waiting in viewer.redraw
    cache,          \* self._cache: viewer -> Bunch; DOMAIN cache = the keys
    view,           \* per viewer: the name of its current pan/zoom state
    detail,         \* the edit detail the caller holds: None until setup_edit
                    \* has filled it
    last            \* what the most recent call did (its observable effects)

vars == <<kind, image, x, y, scale_x, scale_y, interpolation, flipy, optimize,
          rgbmap, cuts, autocuts, alpha, zorder, made, redrawing, cache,
          view, detail, last>>

objattrs == <<kind, interpolation, flipy, optimize, rgbmap, cuts, autocuts,
              alpha, made>>

(***************************************************************************)
(* Bounds of the model.                                                    *)
(***************************************************************************)
MaxWhence == 3      \* draw requests carry whence in 0..MaxWhence
MaxScale == 1       \* object scale factors range over 0..MaxScale
MaxPos == 1         \* anchor coordinates range over 0..MaxPos
MaxZorder == 1      \* z-orders range over 0..MaxZorder
MaxDepth == 3       \* at most MaxDepth draw calls are nested

Whences == 0..MaxWhence
Scales == 0..MaxScale
Coords == 0..MaxPos
Zorders == 0..MaxZorder

(***************************************************************************)
(* Python's None.  Every optional value of the model is either None or a   *)
(* record with other fields.                                               *)
(***************************************************************************)
None == [none |-> TRUE]

Range(s) == {s[i] : i \in DOMAIN s}

MinOf(S) == CHOOSE m \in S : \A n \in S : m <= n

MaxOf(S) == CHOOSE m \in S : \A n \in S : m >= n

(***************************************************************************)
(* The collaborators: images and viewers.                                  *)
(***************************************************************************)
RGBA == <<"R", "G", "B", "A">>

RGB == <<"R", "G", "B">>

Images ==
    { [name |-> "rgba", width |-> 4, height |-> 4, order |-> RGBA],
      [name |-> "rgb", width |-> 3, height |-> 2, order |-> RGB] }

Viewers == {"v1", "v2"}

\* viewer.get_rgb_order(), get_rgbmap(), autocuts, t_['cuts'] and
\* get_settings(): fixed per viewer.
ViewerConf ==
    [v1 |-> [rgb_order |-> RGBA, rgbmap |-> [name |-> "vmap1"],
             autocuts |-> [name |-> "vauto1"], cuts |-> [lo |-> 0, hi |-> 9],
             settings |-> [interpolation |-> "bilinear"]],
     v2 |-> [rgb_order |-> RGB, rgbmap |-> [name |-> "vmap2"],
             autocuts |-> [name |-> "vauto2"], cuts |-> [lo |-> 1, hi |-> 5],
             settings |-> [interpolation |-> "lanczos"]]]

\* The pan/zoom states a viewer can be in.  rect: the corners of
\* get_draw_rect() in halves; pan: get_pan(); data_off: viewer.data_off in
\* halves; scale: get_scale_xy(); wd, ht: the shape of dstarr.
Views ==
    [full |-> [rect |-> {<<0, 0>>, <<16, 0>>, <<16, 16>>, <<0, 16>>},
               pan |-> <<4, 4>>, data_off |-> 1, scale |-> <<1, 1>>,
               wd |-> 8, ht |-> 8],
     part |-> [rect |-> {<<-5, -5>>, <<3, -5>>, <<3, 3>>, <<-5, 3>>},
               pan |-> <<0, 0>>, data_off |-> 1, scale |-> <<2, 2>>,
               wd |-> 8, ht |-> 8],
     off  |-> [rect |-> {<<-16, 0>>, <<0, 0>>, <<0, 16>>, <<-16, 16>>},
               pan |-> <<-4, 4>>, data_off |-> 1, scale |-> <<1, 1>>,
               wd |-> 8, ht |-> 8]]

ViewNames == DOMAIN Views

\* the viewers whose pan/zoom state changes during a run
Panning == {"v1"}

\* trcalc.interpolation_methods
interpolation_methods == {"basic", "bilinear"}

(***************************************************************************)
(* Number conversions of _common_draw, on values counted in halves.        *)
(***************************************************************************)
\* int(v): truncation toward zero
IntOf(h) == IF h >= 0 THEN h \div 2 ELSE -((-h) \div 2)

\* int(np.ceil(v))
CeilOf(h) == -((-h) \div 2)

\* int(np.round(v)): numpy rounds halves to the even neighbour
RoundOf(h) ==
    IF h % 2 = 0 THEN h \div 2
    ELSE LET f == (h - 1) \div 2 IN IF f % 2 = 0 THEN f ELSE f + 1

(***************************************************************************)
(* Bunch.setvals and the cache dictionary.                                 *)
(***************************************************************************)
setvals(bunch, kv) ==
    [k \in (DOMAIN bunch) \cup (DOMAIN kv) |->
        IF k \in DOMAIN kv THEN kv[k] ELSE bunch[k]]

Bunch == <<>>

ImageP_reset_cache(c) ==
    setvals(c, [cutout |-> None, drawn |-> FALSE, cvs_pos |-> <<0, 0>>])

NormImageP_reset_cache(c) ==
    setvals(c, [cutout |-> None, alpha |-> None, prergb |-> None,
                rgbarr |-> None, drawn |-> FALSE, cvs_pos |-> <<0, 0>>])

\* the object's class is NormImageP or its subclass NormImage: its methods
\* are NormImageP's (Python dispatches on the class, not on self.kind)
Normalized == made.cls \in {"NormImageP", "NormImage"}

\* self._reset_cache, dispatched on the class of the object
reset_cache(c) ==
    IF Normalized THEN NormImageP_reset_cache(c)
    ELSE ImageP_reset_cache(c)

in_cache(v) == v \in DOMAIN cache

\* get_cache handing out a newly reset Bunch on every call
get_cache_fresh(d, v) ==
    [w \in (DOMAIN d) \cup {v} |-> IF w = v THEN reset_cache(Bunch) ELSE d[w]]

\* The dictionary after get_cache(viewer); the Bunch returned is its [v].
get_cache(d, v) ==
    IF v \in DOMAIN d THEN d
    ELSE [w \in (DOMAIN d) \cup {v} |-> IF w = v THEN reset_cache(Bunch) ELSE d[w]]

\* reset_optimize looping over the keys of the dictionary instead of its
\* values: no Bunch is reset
reset_optimize_keys(d) == d

\* The dictionary after reset_optimize()
reset_optimize(d) == [w \in DOMAIN d |-> reset_cache(d[w])]

(***************************************************************************)
(* The record of a call: what it was and what it did to the outside.       *)
(***************************************************************************)
NoCall ==
    [op |-> "init", viewer |-> "none", whence |-> 0, arg |-> None,
     stage |-> FALSE,     \* the cutout stage of _common_draw was entered
     clip |-> None,       \* the result of calc_image_merge_clip
     req |-> None,        \* the get_scaled_cutout2 request
     split |-> FALSE,     \* the alpha split block was executed
     index |-> FALSE,     \* the cut-levels block was executed
     cmap |-> FALSE,      \* the colour-mapping block was executed
     comp |-> None,       \* the overlay_image call
     redraw |-> 0,        \* number of viewer.redraw(whence=2) requests
     reorder |-> 0,       \* number of viewer.reorder_layers() requests
     callback |-> <<>>,   \* the 'image-set' callbacks made, in order
     notify |-> <<>>,     \* per viewer, the calls set_zorder made on it
     err |-> "",          \* the exception raised, "" for none
     again |-> FALSE]     \* the call repeats the previous draw_image

(***************************************************************************)
(* ImageP._common_draw                                                     *)
(***************************************************************************)
\* crdmap.to_data for the default coord='data'
to_data(pt) == pt

\* xmin, ymin, xmax, ymax of the draw rectangle (lines 173-177)
DrawBox(v) ==
    LET pts == Views[view[v]].rect
        xs == {p[1] : p \in pts}
        ys == {p[2] : p \in pts}
    IN [xmin |-> IntOf(MinOf(xs)), ymin |-> IntOf(MinOf(ys)),
        xmax |-> CeilOf(MaxOf(xs)), ymax |-> CeilOf(MaxOf(ys))]

\* trcalc.calc_image_merge_clip(p1, p2, dst, q1, q2), one axis at a time.
\* The part of the source hidden before the low edge of the view:
TrimLow(lo, dst) == IF lo - dst > 0 THEN lo - dst ELSE 0

\* the part hidden beyond the high edge, for a source of extent len at dst
TrimHigh(hi, dst, len) == IF dst + len - hi > 0 THEN dst + len - hi ELSE 0

ClipHigh(hi, dst, a1, a2, len) ==
    [dst |-> dst, a1 |-> a1, a2 |-> a2 - TrimHigh(hi, dst, len)]

ClipAxis(lo, hi, dst, a1, a2) ==
    ClipHigh(hi, dst + TrimLow(lo, dst), a1 + TrimLow(lo, dst), a2,
             (a2 - a1) - TrimLow(lo, dst))

MergeAxes(cx, cy) ==
    [dst |-> <<cx.dst, cy.dst>>, p1 |-> <<cx.a1, cy.a1>>,
     p2 |-> <<cx.a2, cy.a2>>]

calc_image_merge_clip(p1, p2, dst, q1, q2) ==
    MergeAxes(ClipAxis(p1[1], p2[1], dst[1], q1[1], q2[1]),
              ClipAxis(p1[2], p2[2], dst[2], q1[2], q2[2]))

\* OffScreen with the comparisons made strict: an extent of exactly zero
\* is taken for a visible one
OffScreen_strict(clip) ==
    (clip.p2[1] - clip.p1[1] < 0) \/ (clip.p2[2] - clip.p1[2] < 0)

\* "is image completely off the screen?" (line 193)
OffScreen(clip) ==
    (clip.p2[1] - clip.p1[1] <= 0) \/ (clip.p2[2] - clip.p1[2] <= 0)

\* ChooseInterp without the test of line 211: the name is passed as it is
ChooseInterp_unchecked(v) ==
    IF interpolation = None
    THEN (IF "interpolation" \in DOMAIN ViewerConf[v].settings
          THEN ViewerConf[v].settings.interpolation ELSE "basic")
    ELSE interpolation.method

\* the interpolation method passed to get_scaled_cutout2 (lines 203-212)
ChooseInterp(v) ==
    LET t_ == ViewerConf[v].settings
        interp == IF interpolation = None
                  THEN (IF "interpolation" \in DOMAIN t_
                        THEN t_.interpolation ELSE "basic")
                  ELSE interpolation.method
    IN IF interp \notin interpolation_methods THEN "basic" ELSE interp

\* the offset in the destination array (lines 223-236)
CvsPos(v, dst) ==
    LET vw == Views[view[v]]
        off_x == (2 * dst[1] - (2 * vw.pan[1] + vw.data_off)) * vw.scale[1]
        off_y == (2 * dst[2] - (2 * vw.pan[2] + vw.data_off)) * vw.scale[2]
    IN <<RoundOf(vw.wd + off_x), RoundOf(vw.ht + off_y)>>

\* CutoutGuard without the test for a missing cutout
CutoutGuard_nomissing(whence, c) ==
    (whence <= 0) \/ (~optimize)

\* the guard of the cutout stage (line 171)
CutoutGuard(whence, c) ==
    (whence <= 0) \/ (c.cutout = None) \/ (~optimize)

\* lines 173-190: the clip of the image against the draw rectangle
ClipOf(v) ==
    calc_image_merge_clip(<<DrawBox(v).xmin, DrawBox(v).ymin>>,
                          <<DrawBox(v).xmax, DrawBox(v).ymax>>,
                          to_data(<<x, y>>), <<0, 0>>,
                          <<image.width - 1, image.height - 1>>)

\* lines 198-215: the get_scaled_cutout2 request
CutoutRequest(v, clip) ==
    [image |-> image.name, p1 |-> clip.p1, p2 |-> clip.p2,
     scale |-> <<Views[view[v]].scale[1] * scale_x,
                 Views[view[v]].scale[2] * scale_y>>,
     method |-> ChooseInterp(v)]

\* lines 216-236: res.data, flipped when self.flipy, and its offset
StoreCutout(v, c, clip, req) ==
    [c |-> [c EXCEPT !.cutout = [req |-> req, flipped |-> flipy,
                                 chans |-> image.order],
                     !.cvs_pos = CvsPos(v, clip.dst)],
     stage |-> TRUE, clip |-> clip, req |-> req]

\* lines 192-236: the cutout stage once the clip is known
CutoutStage(v, c, clip) ==
    IF OffScreen(clip)
    THEN [c |-> [c EXCEPT !.cutout = None], stage |-> TRUE, clip |-> clip,
          req |-> None]
    ELSE StoreCutout(v, c, clip, CutoutRequest(v, clip))

\* _common_draw(viewer, dstarr, cache, whence): the Bunch afterwards and
\* what the call did
common_draw(v, c, whence) ==
    IF image = None
    THEN [c |-> c, stage |-> FALSE, clip |-> None, req |-> None]
    ELSE IF ~CutoutGuard(whence, c)
    THEN [c |-> c, stage |-> FALSE, clip |-> None, req |-> None]
    ELSE CutoutStage(v, c, ClipOf(v))

(***************************************************************************)
(* ImageP.draw_image                                                       *)
(***************************************************************************)
\* the call record of a draw_image
DrawCall(v, whence) ==
    [NoCall EXCEPT !.op = "draw_image", !.viewer = v, !.whence = whence,
                   !.again = (last.op = "draw_image" /\ last.viewer = v
                              /\ last.whence > 2 /\ whence > 2)]

\* the call record with what _common_draw did
WithStage(call, cd) ==
    [call EXCEPT !.stage = cd.stage, !.clip = cd.clip, !.req = cd.req]

\* lines 149-160, with d the dictionary and cd the result of _common_draw
ImageP_overlay(v, d, cd, call) ==
    IF cd.c.cutout = None
    THEN [cache |-> [d EXCEPT ![v] = cd.c], last |-> call]
    ELSE [cache |-> [d EXCEPT ![v] = cd.c],
          last |-> [call EXCEPT !.comp =
                      [pos |-> cd.c.cvs_pos, src |-> cd.c.cutout,
                       dst_order |-> ViewerConf[v].rgb_order,
                       src_order |-> image.order,
                       alpha |-> alpha, fill |-> TRUE, flipy |-> FALSE]]]

ImageP_after_cache(v, whence, d, cd) ==
    ImageP_overlay(v, d, cd, WithStage(DrawCall(v, whence), cd))

ImageP_draw_image(v, whence) ==
    IF image = None
    THEN [cache |-> cache, last |-> DrawCall(v, whence)]
    ELSE ImageP_after_cache(v, whence, get_cache(cache, v),
                            common_draw(v, get_cache(cache, v)[v], whence))

(***************************************************************************)
(* NormImageP.draw_image                                                   *)
(***************************************************************************)
\* position of a channel in an order string (str.index), 0-based
IndexOf(order, ch) == MinOf({i \in DOMAIN order : order[i] = ch}) - 1

\* SplitGuard with the comparison turned round
SplitGuard_flipped(whence) == (whence >= 0) \/ (~optimize)

\* SplitGuard with the threshold of the cut-levels stage
SplitGuard_late(whence) == (whence <= 1) \/ (~optimize)

\* the guard of the alpha split (line 444)
SplitGuard(whence) == (whence <= 0) \/ (~optimize)

\* IndexGuard with the threshold of the cutout stage
IndexGuard_early(whence, c) ==
    (whence <= 0) \/ (c.prergb = None) \/ (~optimize)

\* the guard of the cut-levels stage (line 460)
IndexGuard(whence, c) ==
    (whence <= 1) \/ (c.prergb = None) \/ (~optimize)

\* the guard of the colour-mapping stage (line 476)
CmapGuard(whence, c) ==
    (whence <= 2) \/ (c.rgbarr = None) \/ (~optimize)

\* lines 449-458: the Bunch after the split, or the IndexError numpy raises
\* when the array has no channel a_idx
AlphaSplit(c, image_order, rgbmap_) ==
    IF "A" \notin Range(image_order)
    THEN [c |-> [c EXCEPT !.alpha = None], err |-> ""]
    ELSE LET a_idx == IndexOf(image_order, "A")
             img_arr == c.cutout
         IN IF a_idx >= Len(img_arr.chans)
            THEN [c |-> c, err |-> "IndexError"]
            ELSE [c |-> [c EXCEPT
                         !.alpha = [src |-> img_arr, a_idx |-> a_idx,
                                    rgbmap |-> rgbmap_],
                         !.cutout = [img_arr EXCEPT
                                     !.chans = SubSeq(img_arr.chans, 1, a_idx)]],
                  err |-> ""]

\* NormImageP.apply_visuals(viewer, data, vmin, vmax)
apply_visuals(v, data, vmin, vmax) ==
    LET autocuts_ == IF autocuts # None THEN autocuts ELSE ViewerConf[v].autocuts
        lohi == IF cuts # None THEN cuts ELSE ViewerConf[v].cuts
    IN [src |-> data, autocuts |-> autocuts_, loval |-> lohi.lo,
        hival |-> lohi.hi, vmin |-> vmin, vmax |-> vmax]

\* ColorMap without the write of the stored alpha (lines 482-484 left out)
ColorMap_tablealpha(c, rgbmap_, dst_order, image_order) ==
    [src |-> c.prergb, rgbmap |-> rgbmap_, order |-> dst_order,
     image_order |-> image_order, achan |-> None]

\* lines 478-484
ColorMap(c, rgbmap_, dst_order, image_order) ==
    [src |-> c.prergb, rgbmap |-> rgbmap_, order |-> dst_order,
     image_order |-> image_order,
     achan |-> IF c.alpha # None /\ "A" \in Range(dst_order)
               THEN c.alpha ELSE None]

\* the overlay made only when the colour mapping was recomputed
NormImageP_overlay_lazy(v, d, call, c) ==
    [cache |-> [d EXCEPT ![v] = c],
     last |-> IF call.cmap
              THEN [call EXCEPT !.comp =
                      [pos |-> c.cvs_pos, src |-> c.rgbarr,
                       dst_order |-> ViewerConf[v].rgb_order,
                       src_order |-> ViewerConf[v].rgb_order,
                       alpha |-> alpha, fill |-> TRUE, flipy |-> FALSE]]
              ELSE call]

\* lines 486-491: the overlay of the RGB array
NormImageP_overlay(v, d, call, c) ==
    [cache |-> [d EXCEPT ![v] = c],
     last |-> [call EXCEPT !.comp =
                 [pos |-> c.cvs_pos, src |-> c.rgbarr,
                  dst_order |-> ViewerConf[v].rgb_order,
                  src_order |-> ViewerConf[v].rgb_order,
                  alpha |-> alpha, fill |-> TRUE, flipy |-> FALSE]]]

\* lines 474-484: the colour-mapping stage
NormImageP_cmap(v, whence, d, call, c, rgbmap_) ==
    NormImageP_overlay(v, d, [call EXCEPT !.cmap = CmapGuard(whence, c)],
        IF CmapGuard(whence, c)
        THEN [c EXCEPT !.rgbarr = ColorMap(c, rgbmap_, ViewerConf[v].rgb_order,
                                           image.order)]
        ELSE c)

\* lines 460-471: the cut-levels stage; vmax is get_hash_size() - 1 of the
\* colour mapper in use
NormImageP_index(v, whence, d, call, sp, rgbmap_) ==
    IF sp.err # ""
    THEN [cache |-> [d EXCEPT ![v] = sp.c], last |-> [call EXCEPT !.err = sp.err]]
    ELSE NormImageP_cmap(v, whence, d,
            [call EXCEPT !.index = IndexGuard(whence, sp.c)],
            IF IndexGuard(whence, sp.c)
            THEN [sp.c EXCEPT !.prergb =
                    apply_visuals(v, sp.c.cutout, 0, [hash_size_less_1 |-> rgbmap_])]
            ELSE sp.c,
            rgbmap_)

\* lines 433-458: the return on a missing cutout, and the alpha split
NormImageP_split(v, whence, d, cd, call, rgbmap_) ==
    IF cd.c.cutout = None
    THEN [cache |-> [d EXCEPT ![v] = cd.c], last |-> call]
    ELSE NormImageP_index(v, whence, d,
            [call EXCEPT !.split = SplitGuard(whence)],
            IF SplitGuard(whence)
            THEN AlphaSplit(cd.c, image.order, rgbmap_)
            ELSE [c |-> cd.c, err |-> ""],
            rgbmap_)

NormImageP_after_cache(v, whence, d, cd) ==
    NormImageP_split(v, whence, d, cd, WithStage(DrawCall(v, whence), cd),
                     IF rgbmap # None THEN rgbmap ELSE ViewerConf[v].rgbmap)

NormImageP_draw_image(v, whence) ==
    IF image = None
    THEN [cache |-> cache, last |-> DrawCall(v, whence)]
    ELSE NormImageP_after_cache(v, whence, get_cache(cache, v),
                                common_draw(v, get_cache(cache, v)[v], whence))

\* draw_image(viewer, dstarr, whence), dispatched on the class
draw_image(v, whence) ==
    /\ LET r == IF Normalized THEN NormImageP_draw_image(v, whence)
                ELSE ImageP_draw_image(v, whence)
       IN /\ cache' = r.cache
          /\ last' = r.last
    /\ UNCHANGED <<objattrs, detail, zorder, redrawing, image, x, y, scale_x, scale_y, view>>

(***************************************************************************)
(* The viewer pans or zooms (the environment).                             *)
(***************************************************************************)
ViewerChange(v, name) ==
    /\ view[v] # name
    /\ view' = [view EXCEPT ![v] = name]
    /\ last' = [NoCall EXCEPT !.op = "viewer", !.viewer = v]
    /\ UNCHANGED <<objattrs, detail, zorder, redrawing, image, x, y, scale_x, scale_y, cache>>

(***************************************************************************)
(* set_image                                                               *)
(***************************************************************************)
\* set_image without the reset of the caches
set_image_noreset(img) ==
    /\ image' = img
    /\ cache' = cache
    /\ last' = [NoCall EXCEPT !.op = "set_image", !.arg = img,
                              !.callback = <<img>>]
    /\ UNCHANGED <<objattrs, detail, zorder, redrawing, x, y, scale_x, scale_y, view>>

set_image(img) ==
    /\ image' = img
    /\ cache' = reset_optimize(cache)
    /\ last' = [NoCall EXCEPT !.op = "set_image", !.arg = img,
                              !.callback = <<img>>]
    /\ UNCHANGED <<objattrs, detail, zorder, redrawing, x, y, scale_x, scale_y, view>>

(***************************************************************************)
(* invalidate_cache                                                        *)
(***************************************************************************)
\* a call of in_cache(viewer): the answer, and nothing else
call_in_cache(v) ==
    /\ last' = [NoCall EXCEPT !.op = "in_cache", !.viewer = v,
                              !.arg = [result |-> in_cache(v)]]
    /\ UNCHANGED <<objattrs, detail, zorder, redrawing, image, x, y, scale_x, scale_y, cache,
                   view>>

\* a call of get_cache(viewer) on its own: the entry is made if the viewer
\* has none, and handed out
call_get_cache(v) ==
    /\ cache' = get_cache(cache, v)
    /\ last' = [NoCall EXCEPT !.op = "get_cache", !.viewer = v,
                              !.arg = [result |-> get_cache(cache, v)[v]]]
    /\ UNCHANGED <<objattrs, detail, zorder, redrawing, image, x, y, scale_x, scale_y,
                   view>>

\* a call of reset_optimize() on its own
call_reset_optimize ==
    /\ cache' = reset_optimize(cache)
    /\ last' = [NoCall EXCEPT !.op = "reset_optimize"]
    /\ UNCHANGED <<objattrs, detail, zorder, redrawing, image, x, y, scale_x, scale_y,
                   view>>

\* invalidate_cache that resets the entry of every viewer
invalidate_cache_all(v) ==
    /\ cache' = reset_optimize(get_cache(cache, v))
    /\ last' = [NoCall EXCEPT !.op = "invalidate_cache", !.viewer = v]
    /\ UNCHANGED <<objattrs, detail, zorder, redrawing, image, x, y, scale_x, scale_y, view>>

invalidate_cache(v) ==
    /\ LET d == get_cache(cache, v)
       IN cache' = [d EXCEPT ![v] = reset_cache(d[v])]
    /\ last' = [NoCall EXCEPT !.op = "invalidate_cache", !.viewer = v]
    /\ UNCHANGED <<objattrs, detail, zorder, redrawing, image, x, y, scale_x, scale_y, view>>

(***************************************************************************)
(* get_zorder, set_zorder                                                  *)
(***************************************************************************)
get_zorder == zorder

\* the calls set_zorder makes on one viewer, in order (lines 100-101)
Relayer == <<[call |-> "reorder_layers"], [call |-> "redraw", whence |-> 2]>>

\* set_zorder that stores the value and tells no viewer
set_zorder_quiet(z) ==
    /\ zorder' = z
    /\ last' = [NoCall EXCEPT !.op = "set_zorder", !.arg = [zorder |-> z]]
    /\ UNCHANGED <<objattrs, detail, redrawing, image, x, y, scale_x, scale_y, cache,
                   view>>

set_zorder(z) ==
    /\ zorder' = z
    /\ last' = [NoCall EXCEPT !.op = "set_zorder", !.arg = [zorder |-> z],
                  !.notify = [v \in DOMAIN cache |-> Relayer],
                  !.reorder = Cardinality(DOMAIN cache),
                  !.redraw = Cardinality(DOMAIN cache)]
    /\ UNCHANGED <<objattrs, detail, redrawing, image, x, y, scale_x, scale_y, cache,
                   view>>

(***************************************************************************)
(* draw: the outline                                                       *)
(***************************************************************************)
\* get_scaled_wdht(): reads self.image.width, so it needs an image
get_scaled_wdht == <<image.width * scale_x, image.height * scale_y>>

\* get_points() through get_coords(): the AttributeError of a missing image,
\* or the four corners
get_points ==
    IF image = None THEN [err |-> "AttributeError", pts |-> <<>>]
    ELSE LET x1 == to_data(<<x, y>>)[1]
             y1 == to_data(<<x, y>>)[2]
             x2 == x1 + get_scaled_wdht[1] - 1
             y2 == y1 + get_scaled_wdht[2] - 1
         IN [err |-> "", pts |-> <<<<x1, y1>>, <<x2, y1>>, <<x2, y2>>, <<x1, y2>>>>]

\* draw(viewer): lines 124-128 touch the cache and request the redraw
\* before get_cpoints(viewer) asks get_points() for the corners.
draw(v) ==
    /\ LET d == get_cache(cache, v)
           fresh == ~d[v].drawn
       IN /\ cache' = [d EXCEPT ![v].drawn = TRUE]
          /\ last' = [NoCall EXCEPT !.op = "draw", !.viewer = v,
                        !.redraw = IF fresh THEN 1 ELSE 0,
                        !.err = get_points.err]
    /\ UNCHANGED <<objattrs, detail, zorder, redrawing, image, x, y, scale_x, scale_y, view>>

(***************************************************************************)
(* draw with a viewer whose redraw(whence=2) draws at once: the canvas     *)
(* calls draw(viewer) again while the first call waits at line 128.        *)
(***************************************************************************)
\* a draw may start at top level, or from inside the redraw of its viewer
MayDraw(v) ==
    /\ Len(redrawing) < MaxDepth
    /\ IF redrawing = <<>> THEN TRUE ELSE redrawing[Len(redrawing)] = v

\* draw_enter that asks for the redraw before it sets cache.drawn
draw_enter_late(v) ==
    /\ MayDraw(v)
    /\ LET d == get_cache(cache, v)
       IN IF ~d[v].drawn
          THEN /\ cache' = d
               /\ redrawing' = Append(redrawing, v)
               /\ last' = [NoCall EXCEPT !.op = "draw", !.viewer = v,
                                         !.redraw = 1]
          ELSE /\ cache' = d
               /\ redrawing' = redrawing
               /\ last' = [NoCall EXCEPT !.op = "draw", !.viewer = v,
                                         !.err = get_points.err]
    /\ UNCHANGED <<objattrs, detail, zorder, image, x, y, scale_x, scale_y, view>>

\* lines 124-128: with cache.drawn false the call sets it and is then
\* inside viewer.redraw(whence=2); with cache.drawn true it goes on to
\* lines 130-138 and returns
draw_enter(v) ==
    /\ MayDraw(v)
    /\ LET d == get_cache(cache, v)
       IN IF ~d[v].drawn
          THEN /\ cache' = [d EXCEPT ![v].drawn = TRUE]
               /\ redrawing' = Append(redrawing, v)
               /\ last' = [NoCall EXCEPT !.op = "draw", !.viewer = v,
                                         !.redraw = 1]
          ELSE /\ cache' = d
               /\ redrawing' = redrawing
               /\ last' = [NoCall EXCEPT !.op = "draw", !.viewer = v,
                                         !.err = get_points.err]
    /\ UNCHANGED <<objattrs, detail, zorder, image, x, y, scale_x, scale_y, view>>

\* viewer.redraw returns to the innermost waiting draw, which goes on to
\* lines 130-138 and returns
draw_resume ==
    /\ redrawing # <<>>
    /\ redrawing' = SubSeq(redrawing, 1, Len(redrawing) - 1)
    /\ last' = [NoCall EXCEPT !.op = "draw_resume",
                              !.viewer = redrawing[Len(redrawing)],
                              !.err = get_points.err]
    /\ UNCHANGED <<objattrs, detail, zorder, image, x, y, scale_x, scale_y, cache,
                   view>>

(***************************************************************************)
(* Geometry: set_scale, set_origin, scale_by_factors, scale_by,            *)
(* set_edit_point                                                          *)
(***************************************************************************)
GeomCall(op) == [NoCall EXCEPT !.op = op]

set_scale(sx, sy) ==
    /\ scale_x' = sx
    /\ scale_y' = sy
    /\ cache' = reset_optimize(cache)
    /\ last' = GeomCall("set_scale")
    /\ UNCHANGED <<objattrs, detail, zorder, redrawing, image, x, y, view>>

set_origin(nx, ny) ==
    /\ x' = nx
    /\ y' = ny
    /\ cache' = reset_optimize(cache)
    /\ last' = GeomCall("set_origin")
    /\ UNCHANGED <<objattrs, detail, zorder, redrawing, image, scale_x, scale_y, view>>

scale_by_factors(factors) ==
    /\ scale_x * factors[1] \in Scales
    /\ scale_y * factors[2] \in Scales
    /\ scale_x' = scale_x * factors[1]
    /\ scale_y' = scale_y * factors[2]
    /\ cache' = reset_optimize(cache)
    /\ last' = GeomCall("scale_by_factors")
    /\ UNCHANGED <<objattrs, detail, zorder, redrawing, image, x, y, view>>

\* NormImageP.scale_by
scale_by(sx, sy) ==
    /\ Normalized
    /\ scale_x * sx \in Scales
    /\ scale_y * sy \in Scales
    /\ scale_x' = scale_x * sx
    /\ scale_y' = scale_y * sy
    /\ cache' = reset_optimize(cache)
    /\ last' = GeomCall("scale_by")
    /\ UNCHANGED <<objattrs, detail, zorder, redrawing, image, x, y, view>>

\* the angles a rotation is asked for, in degrees
Thetas == {0, 90}

\* rotate that accepts the request and does nothing
rotate_silent(theta, xoff, yoff) ==
    /\ last' = [GeomCall("rotate") EXCEPT !.arg = [theta |-> theta]]
    /\ UNCHANGED <<objattrs, detail, zorder, redrawing, image, x, y, scale_x, scale_y, cache, view>>

\* rotate(theta, xoff=0, yoff=0): raise ValueError("Images cannot be rotated")
rotate(theta, xoff, yoff) ==
    /\ last' = [GeomCall("rotate") EXCEPT !.arg = [theta |-> theta],
                                          !.err = "ValueError"]
    /\ UNCHANGED <<objattrs, detail, zorder, redrawing, image, x, y, scale_x, scale_y, cache, view>>

\* get_center_pt(), in halves: ((x1 + x2) / 2.0, (y1 + y2) / 2.0) of
\* get_coords(); it reads self.image.width, so it needs an image
get_center_pt ==
    <<2 * to_data(<<x, y>>)[1] + get_scaled_wdht[1] - 1,
      2 * to_data(<<x, y>>)[2] + get_scaled_wdht[2] - 1>>

\* what setup_edit writes on the detail: the centre and the two scales of
\* the moment
EditDetail ==
    [center_pos |-> get_center_pt, scale_x |-> scale_x, scale_y |-> scale_y]

\* setup_edit(detail): the centre and the two scales are written on the
\* detail the caller passes and keeps.  Line 291 asks for the centre
\* first, so without an image the call raises AttributeError before
\* anything is written.
setup_edit ==
    /\ IF image = None
       THEN /\ detail' = detail
            /\ last' = [GeomCall("setup_edit") EXCEPT !.err = "AttributeError"]
       ELSE /\ detail' = EditDetail
            /\ last' = GeomCall("setup_edit")
    /\ UNCHANGED <<objattrs, zorder, redrawing, image, x, y, scale_x, scale_y,
                   cache, view>>

\* move_to_pt(pt): the anchor moves to the point
move_to_pt(pt) == pt

\* set_edit_point whose last branch scales both axes instead of raising
set_edit_point_nocheck(i, pt, f, det) ==
    /\ (i # 0) => det # None
    /\ (i \notin {0, 2}) => det.scale_x * f[1] \in Scales
    /\ (i \notin {0, 1}) => det.scale_y * f[2] \in Scales
    /\ x' = IF i = 0 THEN move_to_pt(pt)[1] ELSE x
    /\ y' = IF i = 0 THEN move_to_pt(pt)[2] ELSE y
    /\ scale_x' = IF i \in {0, 2} THEN scale_x ELSE det.scale_x * f[1]
    /\ scale_y' = IF i \in {0, 1} THEN scale_y ELSE det.scale_y * f[2]
    /\ cache' = reset_optimize(cache)
    /\ last' = [GeomCall("set_edit_point") EXCEPT !.arg = [i |-> i]]
    /\ UNCHANGED <<objattrs, detail, zorder, redrawing, image, view>>

\* set_edit_point(i, pt, detail); det is the detail the caller passes and f
\* is what calc_dual_scale_from_pt(pt, detail) returns.  Branches 1, 2 and
\* 3 read the detail, so they are called with one that setup_edit filled;
\* branch 0 and the raising branch do not read it.
set_edit_point(i, pt, f, det) ==
    /\ (i \in 1..3) => det # None
    /\ (i \in {1, 3}) => det.scale_x * f[1] \in Scales
    /\ (i \in {2, 3}) => det.scale_y * f[2] \in Scales
    /\ IF i \in 0..3
       THEN /\ x' = IF i = 0 THEN move_to_pt(pt)[1] ELSE x
            /\ y' = IF i = 0 THEN move_to_pt(pt)[2] ELSE y
            /\ scale_x' = IF i \in {1, 3} THEN det.scale_x * f[1] ELSE scale_x
            /\ scale_y' = IF i \in {2, 3} THEN det.scale_y * f[2] ELSE scale_y
            /\ cache' = reset_optimize(cache)
            /\ last' = [GeomCall("set_edit_point") EXCEPT !.arg = [i |-> i]]
       ELSE /\ UNCHANGED <<x, y, scale_x, scale_y, cache>>
            /\ last' = [GeomCall("set_edit_point") EXCEPT !.arg = [i |-> i],
                          !.err = "ValueError"]
    /\ UNCHANGED <<objattrs, detail, zorder, redrawing, image, view>>

(***************************************************************************)
(* The constructors.  A call is the class and the keyword arguments cuts,  *)
(* rgbmap and autocuts it is given.                                        *)
(***************************************************************************)
\* what an object can be given of its own
ObjCuts == [lo |-> 2, hi |-> 7]

ObjRgbmap == [name |-> "omap"]

ObjAutocuts == [name |-> "oauto"]

\* alpha in halves: 0.5 and the default 1.0
Alphas == {1, 2}

Calls ==
    {[cls |-> "Image", cuts |-> None, rgbmap |-> None, autocuts |-> None]}
    \cup [cls : {"NormImageP", "NormImage"}, cuts : {None, ObjCuts},
          rgbmap : {None, ObjRgbmap}, autocuts : {None, ObjAutocuts}]

\* ImageP.__init__: kind 'image', and none of the three attributes
ImageP_init(c) ==
    [kind |-> "image", rgbmap |-> None, cuts |-> None, autocuts |-> None]

\* Image.__init__ hands everything to ImageP.__init__
Image_init(c) == ImageP_init(c)

\* NormImageP.__init__ (lines 411-422): line 412 writes kind 'normimage',
\* then ImageP.__init__, called in lines 413-419, writes 'image' over it
\* (line 74); the three attributes are assigned after that call
NormImageP_init(c) ==
    [ImageP_init(c) EXCEPT !.rgbmap = c.rgbmap, !.cuts = c.cuts,
                           !.autocuts = c.autocuts]

\* NormImage.__init__ (lines 535-540): the call of NormImageP.__init__ names
\* neither cuts, rgbmap nor autocuts, so these take their defaults
NormImage_init(c) ==
    NormImageP_init([c EXCEPT !.cuts = None, !.rgbmap = None,
                              !.autocuts = None])

New(c) ==
    CASE c.cls = "Image" -> Image_init(c)
      [] c.cls = "NormImageP" -> NormImageP_init(c)
      [] c.cls = "NormImage" -> NormImage_init(c)

\* The object as its constructor leaves it, before any viewer has drawn it.
Built ==
    /\ made \in {[cls |-> c, cuts |-> None, rgbmap |-> None, autocuts |-> None] :
                    c \in {"Image", "NormImageP"}}
    /\ kind = New(made).kind
    /\ image \in Images \cup {None}
    /\ x = 0 /\ y = 0
    /\ scale_x = 1 /\ scale_y = 1
    /\ interpolation = None
    /\ flipy \in (IF Normalized THEN {FALSE} ELSE BOOLEAN)
    /\ optimize \in BOOLEAN
    /\ rgbmap = None /\ cuts = None /\ autocuts = None
    /\ alpha = 2
    /\ zorder = 0
    /\ redrawing = <<>>
    /\ cache = <<>>
    /\ view = [v \in Viewers |-> "full"]
    /\ last = NoCall

Init == Built /\ detail = None

Next ==
    \/ \E v \in Viewers, whence \in Whences : draw_image(v, whence)
    \/ \E v \in Viewers : draw(v)
    \/ \E v \in Panning, name \in ViewNames : ViewerChange(v, name)
    \/ \E img \in Images \cup {None} : set_image(img)
    \/ \E v \in Viewers : invalidate_cache(v)
    \/ \E v \in Viewers : call_get_cache(v)
    \/ call_reset_optimize

Spec == Init /\ [][Next]_vars

\* The geometry of the object changes between the draws.  The object
\* optimizes and is not flipped; the caller holds no detail, or the one that
\* setup_edit filled on the new object.
InitGeom ==
    /\ Built
    /\ optimize /\ ~flipy
    /\ detail \in (IF image = None THEN {None} ELSE {None, EditDetail})

NextGeom ==
    \/ \E v \in Viewers, whence \in Whences : draw_image(v, whence)
    \/ \E sx, sy \in Scales : set_scale(sx, sy)
    \/ \E nx, ny \in Coords : set_origin(nx, ny)
    \/ \E fx, fy \in Scales : scale_by_factors(<<fx, fy>>)
    \/ \E sx, sy \in Scales : scale_by(sx, sy)
    \/ \E pt \in Coords \X Coords : set_edit_point(0, pt, <<1, 1>>, detail)
    \/ \E i \in 1..4, f \in Scales \X Scales :
            set_edit_point(i, <<x, y>>, f, detail)
    \/ \E theta \in Thetas, xoff, yoff \in Coords : rotate(theta, xoff, yoff)
    \/ \E v \in Viewers : call_get_cache(v)
    \/ call_reset_optimize

SpecGeom == InitGeom /\ [][NextGeom]_vars

\* An edit: the caller fills the detail with setup_edit and applies edit
\* points with it; the scale is set and the object drawn in between.
NextEdit ==
    \/ setup_edit
    \/ \E c \in Coords : set_edit_point(0, <<c, c>>, <<1, 1>>, detail)
    \/ \E i \in 1..4, f \in Scales \X Scales :
            set_edit_point(i, <<x, y>>, f, detail)
    \/ \E sx, sy \in Scales : set_scale(sx, sy)
    \/ \E v \in Viewers : draw_image(v, 0)

SpecEdit == InitGeom /\ [][NextEdit]_vars

\* the interpolation an object can be made with: none, a method that is
\* available, and one that is not
Interps == {None, [method |-> "bilinear"], [method |-> "cubic"]}

\* images that are one pixel wide or one pixel high
ThinImages ==
    { [name |-> "column", width |-> 1, height |-> 3, order |-> RGB],
      [name |-> "row", width |-> 2, height |-> 1, order |-> RGBA] }

\* Objects made by each constructor, with and without values of their own.
InitObj ==
    /\ made \in Calls
    /\ kind = New(made).kind
    /\ rgbmap = New(made).rgbmap
    /\ cuts = New(made).cuts
    /\ autocuts = New(made).autocuts
    /\ image \in Images \cup ThinImages
    /\ alpha \in Alphas
    /\ x = 0 /\ y = 0
    /\ scale_x = 1 /\ scale_y = 1
    /\ interpolation \in Interps
    /\ flipy = FALSE
    /\ optimize \in BOOLEAN
    /\ zorder = 0
    /\ redrawing = <<>>
    /\ cache = <<>>
    /\ view = [v1 |-> "full", v2 |-> "part"]
    /\ detail = None
    /\ last = NoCall

NextObj ==
    \/ \E v \in Viewers, whence \in Whences : draw_image(v, whence)
    \/ \E v \in Viewers : invalidate_cache(v)
    \/ \E v \in Viewers : call_get_cache(v)
    \/ call_reset_optimize

SpecObj == InitObj /\ [][NextObj]_vars

\* The outline is drawn by viewers that redraw at once; between the draws
\* the caches are reset.
NextRedraw ==
    \/ \E v \in Viewers : draw_enter(v)
    \/ draw_resume
    \/ \E v \in Viewers : redrawing = <<>> /\ invalidate_cache(v)
    \/ \E img \in Images \cup {None} : redrawing = <<>> /\ set_image(img)
    \/ \E v \in Viewers, whence \in Whences :
            redrawing = <<>> /\ draw_image(v, whence)
    \/ \E v \in Viewers : redrawing = <<>> /\ call_get_cache(v)
    \/ redrawing = <<>> /\ call_reset_optimize

SpecRedraw == Init /\ [][NextRedraw]_vars

\* The z-order of the object changes between the draws.
NextZ ==
    \/ \E v \in Viewers, whence \in Whences : draw_image(v, whence)
    \/ \E v \in Viewers : draw(v)
    \/ \E v \in Viewers : invalidate_cache(v)
    \/ \E z \in Zorders : set_zorder(z)
    \/ \E v \in Viewers : call_in_cache(v)
    \/ \E v \in Viewers : call_get_cache(v)
    \/ call_reset_optimize

SpecZ == Init /\ [][NextZ]_vars

(***************************************************************************)
(* Properties                                                              *)
(***************************************************************************)
HasCutout(d, v) == v \in DOMAIN d /\ d[v].cutout # None

AllValid(d, v) ==
    /\ v \in DOMAIN d
    /\ d[v].cutout # None
    /\ d[v].prergb # None
    /\ d[v].rgbarr # None

\* a cache entry in the fully reset state, for the class of the object
ResetEntry ==
    IF Normalized
    THEN [cutout |-> None, alpha |-> None, prergb |-> None, rgbarr |-> None,
          drawn |-> FALSE, cvs_pos |-> <<0, 0>>]
    ELSE [cutout |-> None, drawn |-> FALSE, cvs_pos |-> <<0, 0>>]

NonPositiveExtent(clip) ==
    (clip.p2[1] - clip.p1[1] <= 0) \/ (clip.p2[2] - clip.p1[2] <= 0)

GeomOps ==
    {"set_scale", "set_origin", "scale_by_factors", "scale_by", "set_edit_point"}

\* C1: when a draw_image with whence > 2 directly follows a draw_image with
\* whence > 2 for the same viewer, the second call leaves the cache as it
\* was and hands the compositor the same source array and offset as the
\* first (or, like the first, does not invoke it).
C1_IdempotentReuse ==
    [][(/\ last.op = "draw_image" /\ last.whence > 2
        /\ last'.op = "draw_image" /\ last'.whence > 2
        /\ last'.viewer = last.viewer)
       => (cache' = cache /\ last'.comp = last.comp)]_vars

C1_Witness ==
    /\ last.again
    /\ last.comp # None
    /\ ~last.stage

\* C2: in the normalized variant every draw_image call whose cutout stage
\* produces a new cutout also recomputes prergb and rgbarr, and the array
\* handed to the compositor is derived from the cutout now in the cache.
C2_CutoutForcesDownstream ==
    (Normalized /\ last.op = "draw_image" /\ last.req # None)
    => /\ last.index
       /\ last.cmap
       /\ last.comp # None
       /\ last.comp.src.src.src = cache[last.viewer].cutout

\* C3 as stated: with optimize true and all cache fields valid, a
\* draw_image with whence W on an object with an image executes exactly the
\* stages whose threshold is >= W and keeps the cached output of the
\* others; with optimize false every stage executes on every such draw.
C3_AsStated ==
    [][(Normalized /\ last'.op = "draw_image" /\ image # None)
       => LET v == last'.viewer
              w == last'.whence
          IN /\ (optimize /\ AllValid(cache, v))
                => /\ last'.stage = (w <= 0)
                   /\ last'.split = (w <= 0)
                   /\ last'.index = (w <= 1)
                   /\ last'.cmap = (w <= 2)
                   /\ (w > 0 => /\ cache'[v].cutout = cache[v].cutout
                                /\ cache'[v].alpha = cache[v].alpha
                                /\ cache'[v].cvs_pos = cache[v].cvs_pos)
                   /\ (w > 1 => cache'[v].prergb = cache[v].prergb)
                   /\ (w > 2 => cache'[v].rgbarr = cache[v].rgbarr)
             /\ (~optimize)
                => (last'.stage /\ last'.split /\ last'.index /\ last'.cmap)]_vars

\* C3 amended: the same, for the draw_image calls that end with a cutout
\* present (the cutout stage, when it runs, does not find the image
\* clipped away).
C3_WhenceMonotone ==
    [][(/\ Normalized /\ last'.op = "draw_image" /\ image # None
        /\ HasCutout(cache', last'.viewer))
       => LET v == last'.viewer
              w == last'.whence
          IN /\ (optimize /\ AllValid(cache, v))
                => /\ last'.stage = (w <= 0)
                   /\ last'.split = (w <= 0)
                   /\ last'.index = (w <= 1)
                   /\ last'.cmap = (w <= 2)
                   /\ (w > 0 => /\ cache'[v].cutout = cache[v].cutout
                                /\ cache'[v].alpha = cache[v].alpha
                                /\ cache'[v].cvs_pos = cache[v].cvs_pos)
                   /\ (w > 1 => cache'[v].prergb = cache[v].prergb)
                   /\ (w > 2 => cache'[v].rgbarr = cache[v].rgbarr)
             /\ (~optimize)
                => (last'.stage /\ last'.split /\ last'.index /\ last'.cmap)]_vars

C3_Witness ==
    /\ Normalized /\ optimize
    /\ last.op = "draw_image" /\ last.whence = 1
    /\ ~last.stage /\ ~last.split /\ last.index /\ last.cmap
    /\ last.comp # None

\* C4: with a non-null image, the cutout stage of a draw_image call is
\* entered if and only if whence <= 0, or the viewer has no cached cutout,
\* or optimize is false; when it is not entered, cutout and cvs_pos stay
\* as cached and no scaled-cutout request is made.
C4_CutoutStageGuard ==
    [][(last'.op = "draw_image" /\ image # None)
       => LET v == last'.viewer
              w == last'.whence
          IN /\ last'.stage = ((w <= 0) \/ ~HasCutout(cache, v) \/ ~optimize)
             /\ (~last'.stage)
                => /\ cache'[v].cutout = cache[v].cutout
                   /\ cache'[v].cvs_pos = cache[v].cvs_pos
                   /\ last'.req = None
                   /\ last'.clip = None]_vars

C4_Witness ==
    /\ last.op = "draw_image" /\ last.whence > 0 /\ optimize
    /\ ~last.stage
    /\ last.comp # None

\* C5: a draw_image call whose clip computation yields a2 - a1 <= 0 or
\* b2 - b1 <= 0 leaves the cutout absent, issues no scaled-cutout request,
\* runs no later stage and does not invoke the compositor.
C5_OffScreenSafety ==
    (last.op = "draw_image" /\ last.clip # None /\ NonPositiveExtent(last.clip))
    => /\ cache[last.viewer].cutout = None
       /\ last.req = None
       /\ ~last.split /\ ~last.index /\ ~last.cmap
       /\ last.comp = None

C5_Witness ==
    /\ last.op = "draw_image"
    /\ last.clip # None
    /\ NonPositiveExtent(last.clip)
    /\ last.clip.p2[2] - last.clip.p1[2] > 0

\* C6: while the image is None, draw and draw_image raise nothing, change
\* no cache field, request no redraw and never invoke the compositor.
C6_MissingImageNoOp ==
    [][(image = None /\ last'.op \in {"draw", "draw_image"})
       => /\ last'.err = ""
          /\ cache' = cache
          /\ last'.redraw = 0
          /\ last'.comp = None]_vars

\* C7: set_image fires the image-set callback exactly once, with the new
\* image, and leaves every existing cache entry with its stage outputs
\* absent (normalized: cutout, alpha, prergb, rgbarr; raw: cutout absent,
\* drawn false, cvs_pos (0, 0)).
C7_SetImageResets ==
    (last.op = "set_image")
    => /\ last.callback = <<image>>
       /\ last.arg = image
       /\ \A v \in DOMAIN cache :
            IF Normalized
            THEN /\ cache[v].cutout = None /\ cache[v].alpha = None
                 /\ cache[v].prergb = None /\ cache[v].rgbarr = None
            ELSE /\ cache[v].cutout = None /\ ~cache[v].drawn
                 /\ cache[v].cvs_pos = <<0, 0>>

C7_Witness ==
    /\ last.op = "set_image"
    /\ Normalized
    /\ image # None
    /\ DOMAIN cache = Viewers

\* C8: after set_scale, set_origin, scale_by_factors, scale_by or a
\* successful set_edit_point every existing cache entry is fully reset, and
\* the draw_image that follows (for any viewer and whence, with an image)
\* enters the cutout stage and requests its cutout at the new scale.
C8_GeometryInvalidates ==
    [][/\ (last'.op \in GeomOps /\ last'.err = "")
          => /\ DOMAIN cache' = DOMAIN cache
             /\ \A v \in DOMAIN cache' : cache'[v] = ResetEntry
       /\ (/\ last.op \in GeomOps /\ last.err = ""
           /\ last'.op = "draw_image" /\ image # None)
          => /\ last'.stage
             /\ last'.clip # None
             /\ last'.clip.dst[1] >= x /\ last'.clip.dst[2] >= y
             /\ (last'.req # None)
                => last'.req.scale =
                     <<Views[view[last'.viewer]].scale[1] * scale_x,
                       Views[view[last'.viewer]].scale[2] * scale_y>>]_vars

C8_Witness ==
    /\ last.op = "set_edit_point" /\ last.err = ""
    /\ last.arg.i = 3
    /\ DOMAIN cache = Viewers
    /\ image # None

\* C9: for an image whose channel order contains 'A', whenever the
\* cut-levels stage of a normalized draw_image executes, the cutout it is
\* applied to has had its alpha channel split off into cache.alpha.
C9_AlphaNeverDownstream ==
    (/\ Normalized /\ last.op = "draw_image" /\ last.index
     /\ image # None /\ "A" \in Range(image.order))
    => /\ "A" \notin Range(cache[last.viewer].prergb.src.chans)
       /\ cache[last.viewer].alpha # None

\* C10 as stated: normalized, optimize true, image present: a draw_image
\* with whence <= 0 executes the alpha split; one with whence = 1 and a
\* cached cutout does not, keeps cache.alpha and the cutout as they were
\* and recomputes the index array.
C10_AsStated ==
    [][(/\ Normalized /\ optimize /\ image # None
        /\ last'.op = "draw_image")
       => LET v == last'.viewer
              w == last'.whence
          IN /\ (w <= 0) => last'.split
             /\ (w = 1 /\ HasCutout(cache, v))
                => /\ ~last'.split
                   /\ cache'[v].alpha = cache[v].alpha
                   /\ cache'[v].cutout = cache[v].cutout
                   /\ last'.index]_vars

\* C10 amended: the split is executed on the draw_image calls with
\* whence <= 0 that end with a cutout present; the whence = 1 part is as
\* stated.
C10_AlphaSplitTiming ==
    [][(/\ Normalized /\ optimize /\ image # None
        /\ last'.op = "draw_image")
       => LET v == last'.viewer
              w == last'.whence
          IN /\ (w <= 0 /\ HasCutout(cache', v)) => last'.split
             /\ (w = 1 /\ HasCutout(cache, v))
                => /\ ~last'.split
                   /\ cache'[v].alpha = cache[v].alpha
                   /\ cache'[v].cutout = cache[v].cutout
                   /\ last'.index]_vars

C10_Witness ==
    /\ Normalized /\ optimize
    /\ last.op = "draw_image" /\ last.whence = 1
    /\ ~last.stage /\ ~last.split /\ last.index
    /\ cache[last.viewer].alpha # None
    /\ "A" \notin Range(cache[last.viewer].cutout.chans)

\* C11: whenever the colour-mapping stage of a draw_image call executes, the
\* alpha channel of the resulting rgbarr is the stored cache.alpha if that is
\* present and the destination order contains 'A'; otherwise the output of
\* the colour table is left as it is (no channel is overwritten).
C11_AlphaRecombination ==
    (last.op = "draw_image" /\ last.cmap) =>
        LET c == cache[last.viewer]
            dst_order == ViewerConf[last.viewer].rgb_order
        IN /\ (c.alpha # None /\ "A" \in Range(dst_order))
                  => c.rgbarr.achan = c.alpha
           /\ (c.alpha = None \/ "A" \notin Range(dst_order))
                  => c.rgbarr.achan = None

\* the colour mapping ran with a stored alpha for a destination with 'A'
C11_Witness ==
    /\ last.op = "draw_image" /\ last.cmap
    /\ cache[last.viewer].alpha # None
    /\ "A" \in Range(ViewerConf[last.viewer].rgb_order)
    /\ cache[last.viewer].rgbarr.achan = cache[last.viewer].alpha

\* C12: every call of rotate, whatever the angle and the offsets, raises an
\* error and leaves the position, the scales and every per-viewer cache
\* entry as they were.
C12_RotationRejected ==
    [][last'.op = "rotate" =>
          /\ last'.err = "ValueError"
          /\ UNCHANGED <<x, y, scale_x, scale_y, cache>>]_vars

\* rotate was called on an object that has been moved and has a cutout
C12_Witness ==
    /\ last.op = "rotate" /\ last.err = "ValueError"
    /\ last.arg.theta = 90
    /\ x # 0
    /\ \E v \in Viewers : HasCutout(cache, v)

\* C13: a set_edit_point call with an index outside {0,1,2,3} raises an
\* error and changes neither the position, the scales nor any cache entry;
\* index 0 leaves both scales as they were, index 1 leaves the position and
\* scale_y, index 2 the position and scale_x, index 3 the position.
C13_EditIndexBound ==
    [][last'.op = "set_edit_point" =>
          /\ last'.arg.i \notin 0..3 =>
                /\ last'.err = "ValueError"
                /\ UNCHANGED <<x, y, scale_x, scale_y, cache>>
          /\ last'.arg.i \in 0..3 => last'.err = ""
          /\ last'.arg.i = 0 => UNCHANGED <<scale_x, scale_y>>
          /\ last'.arg.i = 1 => UNCHANGED <<x, y, scale_y>>
          /\ last'.arg.i = 2 => UNCHANGED <<x, y, scale_x>>
          /\ last'.arg.i = 3 => UNCHANGED <<x, y>>]_vars

\* index 4 was rejected on an object that has a cutout in its cache, with
\* a detail that was filled before the scale was changed
C13_Witness ==
    /\ last.op = "set_edit_point" /\ last.arg.i = 4
    /\ last.err = "ValueError"
    /\ \E v \in Viewers : HasCutout(cache, v)
    /\ detail # None
    /\ detail.scale_x # scale_x

\* C14: every call of set_zorder stores the new z-order, leaves every
\* per-viewer cache entry as it was, and calls reorder_layers() and then
\* redraw(whence=2) once on each viewer that has a cache entry, and on no
\* other viewer.
C14_ZorderMutation ==
    [][last'.op = "set_zorder" =>
          /\ zorder' = last'.arg.zorder
          /\ get_zorder' = last'.arg.zorder
          /\ cache' = cache
          /\ DOMAIN last'.notify = DOMAIN cache
          /\ \A v \in DOMAIN cache : last'.notify[v] = Relayer
          /\ last'.reorder = Cardinality(DOMAIN cache)
          /\ last'.redraw = Cardinality(DOMAIN cache)]_vars

\* the z-order was changed while one viewer had drawn the object and the
\* other had not
C14_Witness ==
    /\ last.op = "set_zorder" /\ zorder = 1
    /\ DOMAIN cache = {"v1"}
    /\ HasCutout(cache, "v1")
    /\ DOMAIN last.notify = {"v1"} /\ last.redraw = 1

\* the value in force for an object made by the call c and viewer v: the one
\* the call gave, the viewer's if it gave none
Given(c, v, what) == IF c[what] # None THEN c[what] ELSE ViewerConf[v][what]

\* C15: for a normalized object made through NormImageP or NormImage, every
\* execution of the cut-levels stage uses the cut levels and the auto-cuts
\* policy the constructor was given, and every execution of the
\* colour-mapping stage the colour mapper it was given; the viewer's are
\* used only for those not given.
C15_ObjectOverrides ==
    (last.op = "draw_image" /\ Normalized) =>
        /\ last.index =>
              /\ cache[last.viewer].prergb.loval = Given(made, last.viewer, "cuts").lo
              /\ cache[last.viewer].prergb.hival = Given(made, last.viewer, "cuts").hi
              /\ cache[last.viewer].prergb.autocuts
                    = Given(made, last.viewer, "autocuts")
        /\ last.cmap =>
              cache[last.viewer].rgbarr.rgbmap = Given(made, last.viewer, "rgbmap")

\* the scaled image lies entirely inside the draw rectangle of viewer v
FullyInside(v) ==
    /\ image # None
    /\ DrawBox(v).xmin <= x
    /\ x + image.width * scale_x <= DrawBox(v).xmax
    /\ DrawBox(v).ymin <= y
    /\ y + image.height * scale_y <= DrawBox(v).ymax

\* C16: after a draw_image call with whence 0 on an image (of width and
\* height at least 1) that lies entirely inside the draw rectangle, the
\* cutout is present, it was requested for the source rectangle
\* (0,0)-(width-1,height-1), and the compositor was invoked.
C16_VisibleDrawnWhole ==
    (last.op = "draw_image" /\ last.whence = 0 /\ FullyInside(last.viewer)
     /\ image.width >= 1 /\ image.height >= 1) =>
        /\ cache[last.viewer].cutout # None
        /\ last.req # None
        /\ last.req.p1 = <<0, 0>>
        /\ last.req.p2 = <<image.width - 1, image.height - 1>>
        /\ last.comp # None

\* C17: a scale factor of zero or less asked for through set_scale,
\* scale_by_factors, scale_by or set_edit_point is rejected or clamped, so
\* the object's scales stay positive and no get_scaled_cutout2 request is
\* ever issued with a non-positive combined scale factor on either axis.
C17_DegenerateScaleGuarded ==
    (last.op = "draw_image" /\ last.req # None) =>
        /\ scale_x > 0 /\ scale_y > 0
        /\ last.req.scale[1] > 0
        /\ last.req.scale[2] > 0

\* C18: in every reachable state, every per-viewer cache entry of a
\* normalized object has one of the shapes Empty, CutoutReady, IndexReady,
\* ColorReady: a present rgbarr implies a present prergb, and a present
\* prergb implies a present cutout.  (An entry of the raw variant has only
\* the cutout, absent or present.)
C18_CacheShape ==
    \A v \in DOMAIN cache :
        IF Normalized
        THEN /\ cache[v].rgbarr # None => cache[v].prergb # None
             /\ cache[v].prergb # None => cache[v].cutout # None
        ELSE DOMAIN cache[v] = {"cutout", "drawn", "cvs_pos"}

\* C19: every draw_image call that ends with a present cutout has invoked
\* the compositor (once, after the stages of the call), whatever the whence
\* value and the optimize flag, with the cache's current cvs_pos, the
\* object's alpha, and the cache's current final array: the cutout with the
\* image's channel order for the raw variant, rgbarr with the destination
\* channel order for the normalized variant.
C19_CompositorUnconditional ==
    (/\ last.op = "draw_image"
     /\ last.viewer \in DOMAIN cache
     /\ cache[last.viewer].cutout # None) =>
        /\ last.comp # None
        /\ last.comp.pos = cache[last.viewer].cvs_pos
        /\ last.comp.alpha = alpha
        /\ last.comp.dst_order = ViewerConf[last.viewer].rgb_order
        /\ IF Normalized
           THEN /\ last.comp.src = cache[last.viewer].rgbarr
                /\ last.comp.src # None
                /\ last.comp.src_order = ViewerConf[last.viewer].rgb_order
           ELSE /\ last.comp.src = cache[last.viewer].cutout
                /\ last.comp.src_order = image.order

\* a draw with whence 3 and optimize on that recomputed nothing composited
\* the cached RGB array with an alpha of 0.5 away from the origin
C19_Witness ==
    /\ last.op = "draw_image" /\ last.whence = 3 /\ optimize
    /\ Normalized /\ alpha = 1
    /\ ~last.stage /\ ~last.cmap
    /\ last.comp # None
    /\ last.comp.alpha = 1
    /\ last.comp.pos # <<0, 0>>
    /\ last.comp.src = cache[last.viewer].rgbarr

\* the dictionary with only the entry of viewer v, if it has one
Alone(d, v) == [u \in (DOMAIN d) \cap {v} |-> d[u]]

\* the entry of viewer v after draw_image(v, whence) on the dictionary d
DrawnEntry(d, v, whence) ==
    IF Normalized
    THEN NormImageP_after_cache(v, whence, d, common_draw(v, d[v], whence)).cache[v]
    ELSE ImageP_after_cache(v, whence, d, common_draw(v, d[v], whence)).cache[v]

\* C20: draw, draw_image and invalidate_cache for a viewer A leave the
\* entry of every other viewer B as it was (present or not), and A's entry
\* afterwards is the one the same call produces when A's entry is the only
\* one in the dictionary; so each viewer's entry is what its own calls
\* alone produce, however the calls of different viewers interleave.
C20_ViewerIndependence ==
    [][last'.op \in {"draw", "draw_image", "invalidate_cache"} =>
          LET a == last'.viewer
          IN /\ \A b \in Viewers \ {a} :
                    /\ (b \in DOMAIN cache') = (b \in DOMAIN cache)
                    /\ b \in DOMAIN cache => cache'[b] = cache[b]
             /\ (last'.op = "invalidate_cache")
                    => cache'[a] = reset_cache(get_cache(Alone(cache, a), a)[a])
             /\ (last'.op = "draw")
                    => cache'[a] = [get_cache(Alone(cache, a), a)[a]
                                      EXCEPT !.drawn = TRUE]
             /\ (last'.op = "draw_image" /\ image # None)
                    => cache'[a] = DrawnEntry(get_cache(Alone(cache, a), a),
                                              a, last'.whence)
             /\ (last'.op = "draw_image" /\ image = None)
                    => cache' = cache]_vars

\* viewer v2 drew the image while viewer v1 held a different cutout
C20_Witness ==
    /\ last.op = "draw_image" /\ last.viewer = "v2" /\ last.stage
    /\ HasCutout(cache, "v1") /\ HasCutout(cache, "v2")
    /\ cache["v1"].cutout # cache["v2"].cutout
    /\ view["v1"] # view["v2"]

\* C21: the dictionary starts empty; an entry for a viewer appears only in
\* a get_cache, a draw, a draw_image with an image, or an invalidate_cache
\* for that viewer, one entry at a time, and what get_cache creates and
\* returns is the fully reset entry; no entry is ever removed; get_cache for
\* a viewer that has an entry returns that entry and leaves the dictionary
\* as it is, so a later draw or draw_image works on the stored entry; a
\* call of in_cache answers whether the entry exists and changes nothing.
C21_LazyUniqueEntries ==
    /\ cache = <<>>
    /\ [][/\ DOMAIN cache \subseteq DOMAIN cache'
          /\ \A v \in (DOMAIN cache') \ (DOMAIN cache) :
                /\ last'.viewer = v
                /\ \/ last'.op \in {"get_cache", "draw", "invalidate_cache"}
                   \/ last'.op = "draw_image" /\ image # None
                /\ DOMAIN cache' = (DOMAIN cache) \cup {v}
                /\ get_cache(cache, v)[v] = ResetEntry
                /\ last'.op = "invalidate_cache" => cache'[v] = ResetEntry
                /\ last'.op = "get_cache"
                      => /\ cache'[v] = ResetEntry
                         /\ last'.arg.result = ResetEntry
                /\ last'.op = "draw"
                      => cache'[v] = [ResetEntry EXCEPT !.drawn = TRUE]
                /\ last'.op = "draw_image"
                      => cache'[v] = DrawnEntry(get_cache(cache, v), v,
                                                last'.whence)
          /\ \A v \in DOMAIN cache :
                /\ get_cache(cache, v) = cache
                /\ (last'.op = "get_cache" /\ last'.viewer = v)
                      => /\ cache' = cache
                         /\ last'.arg.result = cache[v]
                /\ (last'.op = "draw" /\ last'.viewer = v)
                      => cache'[v] = [cache[v] EXCEPT !.drawn = TRUE]
                /\ (last'.op = "draw_image" /\ last'.viewer = v
                    /\ image # None)
                      => cache'[v] = DrawnEntry(cache, v, last'.whence)
          /\ (last'.op = "draw_image" /\ image = None) => cache' = cache
          /\ last'.op = "in_cache"
                => /\ cache' = cache
                   /\ last'.arg.result = (last'.viewer \in DOMAIN cache)]_vars

\* in_cache was asked about a viewer that never drew, while the other
\* viewer's entry, made by its draws, holds a cutout
C21_Witness ==
    /\ last.op = "in_cache" /\ last.viewer = "v2"
    /\ last.arg.result = FALSE
    /\ DOMAIN cache = {"v1"}
    /\ cache["v1"].drawn /\ HasCutout(cache, "v1")

\* viewer v's default: t_.get('interpolation', 'basic')
ViewerDefault(v) ==
    IF "interpolation" \in DOMAIN ViewerConf[v].settings
    THEN ViewerConf[v].settings.interpolation ELSE "basic"

\* C22 as stated: the method of every scaled-cutout request is the object's
\* interpolation if that is set and recognized, else the viewer's default
\* if that is recognized, else 'basic'.
C22_AsStated ==
    (last.op = "draw_image" /\ last.req # None) =>
        last.req.method =
            IF interpolation # None
               /\ interpolation.method \in interpolation_methods
            THEN interpolation.method
            ELSE IF ViewerDefault(last.viewer) \in interpolation_methods
            THEN ViewerDefault(last.viewer)
            ELSE "basic"

\* C22 amended: the name chosen is the object's interpolation if it is set,
\* the viewer's default only if it is not set; the method of the request
\* is the chosen name if it is recognized and 'basic' otherwise, so the
\* request always carries a recognized method and the call raises nothing.
C22_InterpolationFallback ==
    (last.op = "draw_image" /\ last.req # None) =>
        /\ last.req.method \in interpolation_methods
        /\ last.err = ""
        /\ interpolation # None =>
              last.req.method =
                  IF interpolation.method \in interpolation_methods
                  THEN interpolation.method ELSE "basic"
        /\ interpolation = None =>
              last.req.method =
                  IF ViewerDefault(last.viewer) \in interpolation_methods
                  THEN ViewerDefault(last.viewer) ELSE "basic"

\* an object set to an unavailable method was drawn in a viewer whose
\* default is available, and 'basic' was requested
C22_Witness ==
    /\ last.op = "draw_image" /\ last.req # None
    /\ interpolation # None
    /\ interpolation.method \notin interpolation_methods
    /\ ViewerDefault(last.viewer) = "bilinear"
    /\ last.req.method = "basic"

\* floor(v) of a value counted in halves
FloorOf(h) == h \div 2

\* C23: whenever a draw_image call computes the clip, the box it passes has
\* xmin = floor(min x), ymin = floor(min y), xmax = ceil(max x) and
\* ymax = ceil(max y) of the viewer's draw rectangle, and so contains every
\* corner of the rectangle, also when the coordinates are negative and not
\* integers.
C23_OutwardRounding ==
    (last.op = "draw_image" /\ last.stage) =>
        LET pts == Views[view[last.viewer]].rect
            b == DrawBox(last.viewer)
        IN /\ b.xmin = FloorOf(MinOf({p[1] : p \in pts}))
           /\ b.ymin = FloorOf(MinOf({p[2] : p \in pts}))
           /\ b.xmax = CeilOf(MaxOf({p[1] : p \in pts}))
           /\ b.ymax = CeilOf(MaxOf({p[2] : p \in pts}))
           /\ \A p \in pts : /\ 2 * b.xmin <= p[1] /\ p[1] <= 2 * b.xmax
                              /\ 2 * b.ymin <= p[2] /\ p[2] <= 2 * b.ymax

\* C24: draw(viewer) requests viewer.redraw(whence=2) if and only if the
\* viewer's entry is new or its drawn flag is false, and at most once; the
\* flag is true when the request is issued and stays true while the call
\* waits in it; so a draw that the redraw re-enters for the same viewer
\* requests nothing and returns, and no draw is ever nested more than one
\* level inside a redraw.
C24_RedrawOncePerReset ==
    /\ [](/\ Len(redrawing) <= 1
          /\ \A i \in DOMAIN redrawing :
                 /\ redrawing[i] \in DOMAIN cache
                 /\ cache[redrawing[i]].drawn)
    /\ [][last'.op = "draw" =>
            /\ last'.redraw \in {0, 1}
            /\ (last'.redraw = 1) <=>
                   (\/ last'.viewer \notin DOMAIN cache
                    \/ ~cache[last'.viewer].drawn)
            /\ cache'[last'.viewer].drawn
            /\ (last'.redraw = 1) =>
                   redrawing' = Append(redrawing, last'.viewer)
            /\ (last'.redraw = 0) => redrawing' = redrawing]_vars

\* the redraw asked for by the first draw after a reset re-entered draw,
\* which asked for nothing, while the first draw is still waiting
C24_Witness ==
    /\ last.op = "draw" /\ last.viewer = "v1" /\ last.redraw = 0
    /\ redrawing = <<"v1">>
    /\ cache["v1"].drawn

====
